---- MODULE Spec2Model ----
(***************************************************************************)
(* manual-test/main.cpp: main reads n, n values and a target from standard *)
(* input, calls twoSum(nums, target) and prints "[" result[0] "," result[1] *)
(* "]".  twoSum scans nums left to right with an unordered_map<int,int>     *)
(* from value to index.  Every program variable is a 32-bit signed int.     *)
(* Indices are 0-based, as in the source: nums and seen are functions.      *)
(***************************************************************************)
EXTENDS Integers, Sequences, FiniteSets

\* Longest input sequence explored.
MaxLen == 4

\* Range of the type int of nums[i], target, complement.
INT_MAX == 2147483647
INT_MIN == (-INT_MAX) - 1

\* The values fed on standard input: both ends of the int range and small
\* values around zero.
Values == {INT_MIN, -1, 0, 1, INT_MAX}

\* The element counts fed on standard input; -1 stands for a negative n.
Counts == (-1)..MaxLen

VARIABLES pc, n, nums, main_i, target, i, seen, result, out

vars == <<pc, n, nums, main_i, target, i, seen, result, out>>

\* ------------------------------------------------------------------
\* 32-bit signed arithmetic.  No intermediate value leaves the int range.

\* target - v does not fit in an int (signed overflow: undefined behaviour).
SubOverflows(t, v) ==
    \/ v > 0 /\ t < INT_MIN + v
    \/ v < 0 /\ t > INT_MAX + v

\* The two's-complement result of t - v, i.e. (t - v) modulo 2^32 taken in
\* INT_MIN..INT_MAX: what the subtract instruction leaves in the register.
WrapSub(t, v) ==
    IF v > 0 /\ t < INT_MIN + v
    THEN ((((t + INT_MAX) + 1) - v) + INT_MAX) + 1
    ELSE IF v < 0 /\ t > INT_MAX + v
    THEN ((((t - INT_MAX) - 1) - v) - INT_MAX) - 1
    ELSE t - v

\* int complement = target - nums[i];
Complement(t, v) == WrapSub(t, v)

\* seen.count(complement)
Count(m, c) == IF c \in DOMAIN m THEN 1 ELSE 0

\* seen.insert({key, idx}): a key already present keeps its first index.
SetKeepFirst(m, key, idx) ==
    IF key \in DOMAIN m THEN m
    ELSE [x \in DOMAIN m \cup {key} |-> IF x = key THEN idx ELSE m[x]]

\* seen[key] = idx;  operator[] inserts the key or overwrites its value.
Set(m, key, idx) ==
    [x \in DOMAIN m \cup {key} |-> IF x = key THEN idx ELSE m[x]]

\* ------------------------------------------------------------------
Init ==
    /\ pc = "read_n"
    /\ n = 0
    /\ nums = <<>>
    /\ main_i = 0
    /\ target = 0
    /\ i = 0
    /\ seen = <<>>
    /\ result = <<>>
    /\ out = <<>>

\* cin >> n;
ReadN ==
    /\ pc = "read_n"
    /\ \E v \in Counts : n' = v
    /\ pc' = "alloc"
    /\ UNCHANGED <<nums, main_i, target, i, seen, result, out>>

\* vector<int> nums(n);  n elements, each 0; then the read loop's int i = 0.
Alloc ==
    /\ pc = "alloc"
    /\ n >= 0
    /\ nums' = [x \in 0..(n - 1) |-> 0]
    /\ main_i' = 0
    /\ pc' = "read_nums"
    /\ UNCHANGED <<n, target, i, seen, result, out>>

\* vector<int> nums(n) with n < 0: n converts to a size above max_size(),
\* the constructor throws std::length_error, nothing catches it.
AllocThrows ==
    /\ pc = "alloc"
    /\ n < 0
    /\ pc' = "terminated"
    /\ UNCHANGED <<n, nums, main_i, target, i, seen, result, out>>

\* for (int i = 0; i < n; i++) cin >> nums[i];
ReadNum ==
    /\ pc = "read_nums"
    /\ main_i < n
    /\ \E v \in Values : nums' = [nums EXCEPT ![main_i] = v]
    /\ main_i' = main_i + 1
    /\ UNCHANGED <<pc, n, target, i, seen, result, out>>

\* int target; cin >> target;
ReadTarget ==
    /\ pc = "read_nums"
    /\ ~(main_i < n)
    /\ \E v \in Values : target' = v
    /\ pc' = "call"
    /\ UNCHANGED <<n, nums, main_i, i, seen, result, out>>

\* twoSum entered with the loop written for (int i = 1; ...).
CallTwoSumStartingAtOne ==
    /\ pc = "call"
    /\ seen' = <<>>
    /\ i' = 1
    /\ pc' = "scan"
    /\ UNCHANGED <<n, nums, main_i, target, result, out>>

\* twoSum(nums, target) is entered: unordered_map<int,int> seen; int i = 0.
CallTwoSum ==
    /\ pc = "call"
    /\ seen' = <<>>
    /\ i' = 0
    /\ pc' = "scan"
    /\ UNCHANGED <<n, nums, main_i, target, result, out>>

\* Loop body with seen[nums[i]] = i placed before the lookup's return.
ScanFoundAlsoRecords ==
    /\ pc = "scan"
    /\ i < n
    /\ Count(seen, Complement(target, nums[i])) # 0
    /\ result' = <<seen[Complement(target, nums[i])], i>>
    /\ seen' = Set(seen, nums[i], i)
    /\ pc' = "print"
    /\ UNCHANGED <<n, nums, main_i, target, i, out>>

\* Loop body, complement found: return {seen[complement], i};
ScanFound ==
    /\ pc = "scan"
    /\ i < n
    /\ Count(seen, Complement(target, nums[i])) # 0
    /\ result' = <<seen[Complement(target, nums[i])], i>>
    /\ pc' = "print"
    /\ UNCHANGED <<n, nums, main_i, target, i, seen, out>>

\* Loop body that stores the complement back through the non-const
\* reference nums.
ScanRecordWritesInput ==
    /\ pc = "scan"
    /\ i < n
    /\ Count(seen, Complement(target, nums[i])) = 0
    /\ seen' = Set(seen, nums[i], i)
    /\ nums' = [nums EXCEPT ![i] = Complement(target, nums[i])]
    /\ i' = i + 1
    /\ UNCHANGED <<pc, n, main_i, target, result, out>>

\* Loop body, complement absent: seen[nums[i]] = i; i++.
ScanRecord ==
    /\ pc = "scan"
    /\ i < n
    /\ Count(seen, Complement(target, nums[i])) = 0
    /\ seen' = Set(seen, nums[i], i)
    /\ i' = i + 1
    /\ UNCHANGED <<pc, n, nums, main_i, target, result, out>>

\* target - nums[i] overflows: undefined behaviour.  A build either wraps
\* (ScanFound / ScanRecord, through WrapSub) or traps (-ftrapv, sanitizer).
ScanTrap ==
    /\ pc = "scan"
    /\ i < n
    /\ SubOverflows(target, nums[i])
    /\ pc' = "terminated"
    /\ UNCHANGED <<n, nums, main_i, target, i, seen, result, out>>

\* Loop condition i < nums.size() fails: return {};
ScanExhausted ==
    /\ pc = "scan"
    /\ ~(i < n)
    /\ result' = <<>>
    /\ pc' = "print"
    /\ UNCHANGED <<n, nums, main_i, target, i, seen, out>>

\* The print statement with result[1] and result[0] exchanged.
PrintResultSwapped ==
    /\ pc = "print"
    /\ Len(result) = 2
    /\ out' = <<"[", result[2], ",", result[1], "]">>
    /\ pc' = "done"
    /\ UNCHANGED <<n, nums, main_i, target, i, seen, result>>

\* cout << "[" << result[0] << "," << result[1] << "]";  result holds two
\* elements.
PrintResult ==
    /\ pc = "print"
    /\ Len(result) = 2
    /\ out' = <<"[", result[1], ",", result[2], "]">>
    /\ pc' = "done"
    /\ UNCHANGED <<n, nums, main_i, target, i, seen, result>>

\* A main that tests result.empty() and prints "[]" instead.
PrintEmptyGuarded ==
    /\ pc = "print"
    /\ Len(result) = 0
    /\ out' = <<"[", "]">>
    /\ pc' = "done"
    /\ UNCHANGED <<n, nums, main_i, target, i, seen, result>>

\* The print statement on the empty vector: result[0] is evaluated with no
\* check of result.size().  "[" is already inserted when the operands are
\* sequenced left to right (C++17), and may not be otherwise.
PrintEmpty ==
    /\ pc = "print"
    /\ Len(result) = 0
    /\ out' \in {<<>>, <<"[">>}
    /\ pc' = "bad_access"
    /\ UNCHANGED <<n, nums, main_i, target, i, seen, result>>

\* Outcome of reading result[0], result[1] out of bounds (undefined
\* behaviour): the process dies on the access ...
BadAccessCrash ==
    /\ pc = "bad_access"
    /\ pc' = "terminated"
    /\ UNCHANGED <<n, nums, main_i, target, i, seen, result, out>>

\* ... or two arbitrary ints are read and printed.
BadAccessGarbage ==
    /\ pc = "bad_access"
    /\ \E a \in Values, b \in Values : out' = <<"[", a, ",", b, "]">>
    /\ pc' = "done"
    /\ UNCHANGED <<n, nums, main_i, target, i, seen, result>>

Next ==
    \/ ReadN
    \/ Alloc
    \/ AllocThrows
    \/ ReadNum
    \/ ReadTarget
    \/ CallTwoSum
    \/ ScanFound
    \/ ScanRecord
    \/ ScanTrap
    \/ ScanExhausted
    \/ PrintResult
    \/ PrintEmpty
    \/ BadAccessCrash
    \/ BadAccessGarbage

Spec == Init /\ [][Next]_vars

\* The program is one thread: a statement that can run does run.
FairSpec == Spec /\ WF_vars(Next)

\* ------------------------------------------------------------------
\* Vocabulary of the properties.  Sums are taken in exact integer
\* arithmetic: a pair whose true sum leaves the int range sums to no target.

AddOverflows(a, b) ==
    \/ a > 0 /\ b > 0 /\ a > INT_MAX - b
    \/ a < 0 /\ b < 0 /\ a < INT_MIN - b

ExactSum(a, b, t) == ~AddOverflows(a, b) /\ a + b = t

ValidPair(a, b) ==
    /\ a \in DOMAIN nums
    /\ b \in DOMAIN nums
    /\ a < b
    /\ ExactSum(nums[a], nums[b], target)

ValidPairExists == \E a \in DOMAIN nums, b \in DOMAIN nums : ValidPair(a, b)

\* twoSum has returned to main.
FindReturned == pc \in {"print", "bad_access", "done"}

PairReturned == FindReturned /\ Len(result) = 2

Max(S) == CHOOSE x \in S : \A y \in S : y <= x

Min(S) == CHOOSE x \in S : \A y \in S : x <= y

\* Positions below the scan index that hold value v.
SeenAt(v) == {k \in 0..(i - 1) : nums[k] = v}

Rank(p) ==
    CASE p = "read_n" -> 0
      [] p = "alloc" -> 1
      [] p = "read_nums" -> 2
      [] p = "call" -> 3
      [] p = "scan" -> 4
      [] p = "print" -> 5
      [] p = "bad_access" -> 6
      [] p = "done" -> 7
      [] p = "terminated" -> 8

\* ------------------------------------------------------------------
\* C1: whenever a valid pair exists (positions a < b whose values sum
\* exactly to target), twoSum returns two indices 0 <= i < j < length with
\* nums[i] + nums[j] = target.
C1_ValidPairReturned ==
    (FindReturned /\ ValidPairExists) =>
        /\ Len(result) = 2
        /\ 0 <= result[1]
        /\ result[1] < result[2]
        /\ result[2] < n
        /\ ExactSum(nums[result[1]], nums[result[2]], target)

\* C2: a returned pair (i, j) has the smallest second index of all valid
\* pairs: no positions a < b < j hold values that sum exactly to target.
C2_SmallestSecondIndex ==
    PairReturned =>
        \A a \in DOMAIN nums, b \in DOMAIN nums :
            ValidPair(a, b) => ~(b < result[2])

C2_Witness ==
    /\ PairReturned
    /\ result[2] >= 2
    /\ \E a \in DOMAIN nums, b \in DOMAIN nums : ValidPair(a, b) /\ b > result[2]

\* C3: when no valid pair exists twoSum returns the empty result; so it does
\* for the empty and the one-element sequence, whatever the target.
C3_NoPairEmptyResult ==
    (FindReturned /\ ~ValidPairExists) => result = <<>>

\* C4 as stated: in a returned pair (i, j), i is the earliest position that
\* holds the complement target - nums[j]; no position a < i holds it.
C4_EarliestComplement ==
    PairReturned =>
        \A a \in DOMAIN nums :
            a < result[1] => ~ExactSum(nums[a], nums[result[2]], target)

\* C4 amended: in a returned pair (i, j), i < j and i is the latest position
\* before j that holds the looked-up complement: no position a with
\* i < a < j holds the value nums[i]; and when target - nums[j] fits in an
\* int, nums[i] is that complement.
C4_LatestComplement ==
    PairReturned =>
        /\ result[1] < result[2]
        /\ \A a \in DOMAIN nums :
               (result[1] < a /\ a < result[2]) => nums[a] # nums[result[1]]
        /\ ~SubOverflows(target, nums[result[2]]) =>
               nums[result[1]] = target - nums[result[2]]

C4_Witness ==
    /\ PairReturned
    /\ \E a \in DOMAIN nums : a < result[1] /\ nums[a] = nums[result[1]]

\* C5 as stated: at the start of iteration i the keys of seen are exactly
\* the values nums[0..i-1] and each key maps to the earliest index that
\* holds it.
C5_SeenEarliest ==
    pc = "scan" =>
        /\ DOMAIN seen = {nums[k] : k \in 0..(i - 1)}
        /\ \A v \in DOMAIN seen : seen[v] = Min(SeenAt(v))

\* C5 amended: at the start of iteration i the keys of seen are exactly the
\* values nums[0..i-1] and each key maps to the latest index below i that
\* holds it (recording a value that is already a key moves its index to the
\* current position).
C5_SeenLatest ==
    pc = "scan" =>
        /\ DOMAIN seen = {nums[k] : k \in 0..(i - 1)}
        /\ \A v \in DOMAIN seen : seen[v] = Max(SeenAt(v))

C5_Witness ==
    /\ pc = "scan"
    /\ \E v \in DOMAIN seen : Cardinality(SeenAt(v)) >= 2

\* C6: the steps run in the order read n, read the n values in index order,
\* read target, call twoSum once on the fully read sequence, print; and when
\* twoSum returned a pair (i, j) the output is exactly [ i , j ].
C6_StepOrderAndOutput ==
    [][ /\ Rank(pc') >= Rank(pc)
        /\ (pc = "read_nums" /\ pc' = "read_nums") =>
               /\ main_i' = main_i + 1
               /\ \A x \in DOMAIN nums : x # main_i => nums'[x] = nums[x]
        /\ (pc' = "call" /\ pc # "call") =>
               /\ pc = "read_nums"
               /\ main_i = n
               /\ DOMAIN nums = 0..(n - 1)
        /\ (pc' = "scan" /\ pc # "scan") => pc = "call"
        /\ (pc = "call" /\ pc' # "call") => pc' = "scan"
        /\ (pc' = "print" /\ pc # "print") => pc = "scan"
        /\ (pc' = "done" /\ Len(result) = 2) =>
               /\ pc = "print"
               /\ out' = <<"[", result[1], ",", result[2], "]">>
      ]_vars

C6_Witness ==
    /\ pc = "done"
    /\ Len(result) = 2
    /\ result[1] # result[2]
    /\ out = <<"[", result[1], ",", result[2], "]">>

\* C7: the no-match case is not guarded: once twoSum has returned the empty
\* result, main goes on to the print statement and reads result[0] of the
\* empty vector, having printed no sentinel and reported no error.
C7_EmptyResultAccessed ==
    [][ /\ (pc = "scan" /\ ~(i < n)) => (pc' = "print" /\ result' = <<>>)
        /\ (pc = "print" /\ result = <<>>) =>
               /\ pc' = "bad_access"
               /\ result' = <<>>
               /\ out' \in {<<>>, <<"[">>}
      ]_vars

C7_Witness == pc = "bad_access" /\ result = <<>> /\ n > 0

\* C8: twoSum leaves its inputs alone: from the call on, the sequence
\* (contents, order, length) and the target never change; during the scan
\* only seen, i, result and the position of control change.
C8_InputsUnchanged ==
    [][ /\ Rank(pc) >= 3 => (nums' = nums /\ n' = n /\ target' = target)
        /\ pc = "scan" => (main_i' = main_i /\ out' = out)
      ]_vars

C8_Witness == PairReturned /\ i >= 2 /\ Cardinality(DOMAIN seen) >= 2

\* C9: twoSum is one left-to-right pass that ends: the scan index moves by
\* exactly one per recorded position and never exceeds n; at the first
\* position whose complement is a key the scan stops there, with seen
\* unchanged and the pair (seen[complement], i) as result; and the scan is
\* always left.
C9_SinglePassTerminates ==
    /\ [][ pc = "scan" =>
             /\ i' \in {i, i + 1}
             /\ i' = i + 1 =>
                    /\ pc' = "scan"
                    /\ i < n
                    /\ Complement(target, nums[i]) \notin DOMAIN seen
             /\ i' = i => (pc' # "scan" /\ seen' = seen)
             /\ (i < n /\ Complement(target, nums[i]) \in DOMAIN seen) =>
                    /\ i' = i
                    /\ pc' = "print" =>
                           result' = <<seen[Complement(target, nums[i])], i>>
         ]_vars
    /\ [](pc = "scan" => (0 <= i /\ i <= n))
    /\ (pc = "scan") ~> (pc # "scan")

C9_Witness == PairReturned /\ result[2] >= 1 /\ result[2] < n - 1

\* C10: at every scan position target - nums[i] stays within the int range.
C10_ComplementInRange ==
    (pc = "scan" /\ i < n) => ~SubOverflows(target, nums[i])

====
